---- MODULE Spec2Model ----
(***************************************************************************)
(* The view codec of the engine's test utilities: stringify() renders a    *)
(* view tree and the ranges of a selection as HTML-like text, parse()      *)
(* reads such text back into a view tree and the ranges marked in it.      *)
(*                                                                         *)
(* Text is a sequence of one-character strings.  Offsets and child indexes *)
(* are 0-based, as in the source; TLA+ sequences are 1-based, so the child *)
(* with index i is children[i + 1].  A nullable value is None or Some(x).  *)
(***************************************************************************)
EXTENDS Integers, Sequences, FiniteSets, TLC

VARIABLES
    pc,          \* the step the call is at
    root,        \* stringify: the view tree given
    selection,   \* stringify: the ranges of the selection given
    options,     \* stringify: [showType, showPriority]
    data,        \* the markup: stringify's result, parse's input
    order,       \* parse: options.order
    view,        \* parse: the view tree built by ViewParser, then scanned in place
    kept,        \* RangeParser._getPositions: Text nodes visited and left in the tree
    positions,   \* RangeParser._positions
    posIdx,      \* RangeParser._createRanges: items of _positions consumed
    range,       \* RangeParser._createRanges: the range that is open (None or Some)
    ranges,      \* RangeParser._createRanges: the ranges closed so far
    result,      \* what parse returned
    err,         \* the error thrown, "" while there is none
    tagName,     \* ViewParser._convertElementName: element.tagName
    info         \* ViewParser._convertElementName: the value returned

vars == << pc, root, selection, options, data, order, view, kept, positions,
           posIdx, range, ranges, result, err, tagName, info >>

None == {}
Some(x) == {x}
TheValue(o) == CHOOSE x \in o : TRUE

ELEMENT_RANGE_START_TOKEN == "["
ELEMENT_RANGE_END_TOKEN == "]"
TEXT_RANGE_START_TOKEN == "{"
TEXT_RANGE_END_TOKEN == "}"

(***************************************************************************)
(* Strings                                                                 *)
(***************************************************************************)
Front(s) == SubSeq(s, 1, Len(s) - 1)
Last(s) == s[Len(s)]

RECURSIVE Join(_, _)
Join(parts, sep) ==
    IF parts = << >> THEN << >>
    ELSE IF Len(parts) = 1 THEN parts[1]
    ELSE parts[1] \o sep \o Join(Tail(parts), sep)

RECURSIVE Split(_, _)
Split(s, sep) ==
    IF \A i \in 1..Len(s) : s[i] # sep THEN << s >>
    ELSE LET i == CHOOSE k \in 1..Len(s) :
                      s[k] = sep /\ \A j \in 1..(k - 1) : s[j] # sep
         IN  << SubSeq(s, 1, i - 1) >> \o Split(SubSeq(s, i + 1, Len(s)), sep)

UpperLetters == << "A", "B", "C", "E", "I", "N", "O", "P", "R", "T", "U" >>
LowerLetters == << "a", "b", "c", "e", "i", "n", "o", "p", "r", "t", "u" >>
ToLowerCaseChar(c) ==
    IF \E i \in 1..Len(UpperLetters) : UpperLetters[i] = c
    THEN LowerLetters[CHOOSE i \in 1..Len(UpperLetters) : UpperLetters[i] = c]
    ELSE c
ToLowerCase(s) == [i \in 1..Len(s) |-> ToLowerCaseChar(s[i])]

Digits == << "0", "1", "2", "3", "4", "5", "6", "7", "8", "9" >>
IsDigit(c) == \E i \in 1..10 : Digits[i] = c
DigitValue(c) == (CHOOSE i \in 1..10 : Digits[i] = c) - 1

RECURSIVE DigitsPrefixValue(_, _)
\* The value of the longest prefix of digits of s, acc being the value so far.
DigitsPrefixValue(s, acc) ==
    IF s = << >> \/ ~IsDigit(Head(s)) THEN acc
    ELSE DigitsPrefixValue(Tail(s), 10 * acc + DigitValue(Head(s)))

\* parseInt( s, 10 ): an optional sign, then the longest prefix of digits, what
\* follows them ignored; NaN (None) when there is no digit to read.
ParseInt(s) ==
    LET signed == s # << >> /\ Head(s) \in {"-", "+"}
        body == IF signed THEN Tail(s) ELSE s
    IN  IF body = << >> \/ ~IsDigit(Head(body)) THEN None
        ELSE IF signed /\ Head(s) = "-" THEN Some(0 - DigitsPrefixValue(body, 0))
        ELSE Some(DigitsPrefixValue(body, 0))

RECURSIVE NatToString(_)
NatToString(n) ==
    IF n < 10 THEN << Digits[n + 1] >>
    ELSE NatToString(n \div 10) \o << Digits[(n % 10) + 1] >>

\* String( n ), as the template literal and Array.prototype.join apply it.
NumberToString(n) == IF n < 0 THEN << "-" >> \o NatToString(0 - n) ELSE NatToString(n)

CONTAINER == << "c", "o", "n", "t", "a", "i", "n", "e", "r" >>
ATTRIBUTE == << "a", "t", "t", "r", "i", "b", "u", "t", "e" >>

(***************************************************************************)
(* ViewParser: the type-tag grammar                                        *)
(***************************************************************************)
convertType(type) ==
    IF type = CONTAINER \/ type = ATTRIBUTE THEN Some(type) ELSE None

convertPriority(priorityString) == ParseInt(priorityString)

TagInfo(name, type, priority) ==
    [ok |-> TRUE, name |-> name, type |-> type, priority |-> priority, raw |-> << >>]
TagError(tag) ==
    [ok |-> FALSE, name |-> << >>, type |-> None, priority |-> None, raw |-> tag]

\* A different decoding, for comparison: of two segments the second is tried as a
\* priority before the first is tried as a type.
PriorityFirstConvertElementName(elementTagName) ==
    LET lower == ToLowerCase(elementTagName)
        parts == Split(lower, ":")
    IN  IF Len(parts) = 1 THEN TagInfo(parts[1], None, None)
        ELSE IF Len(parts) = 2
        THEN IF convertPriority(parts[2]) # None
             THEN TagInfo(parts[1], Some(ATTRIBUTE), convertPriority(parts[2]))
             ELSE IF convertType(parts[1]) # None
             THEN TagInfo(parts[2], convertType(parts[1]), None)
             ELSE TagError(lower)
        ELSE IF Len(parts) = 3
                /\ convertType(parts[1]) # None
                /\ convertPriority(parts[3]) # None
        THEN TagInfo(parts[2], convertType(parts[1]), convertPriority(parts[3]))
        ELSE TagError(lower)

convertElementName(elementTagName) ==
    LET lower == ToLowerCase(elementTagName)
        parts == Split(lower, ":")
    IN  IF Len(parts) = 1 THEN TagInfo(parts[1], None, None)
        ELSE IF Len(parts) = 2
        THEN IF convertType(parts[1]) # None
             THEN TagInfo(parts[2], convertType(parts[1]), None)
             ELSE IF convertPriority(parts[2]) # None
             THEN TagInfo(parts[1], Some(ATTRIBUTE), convertPriority(parts[2]))
             ELSE TagError(lower)
        ELSE IF Len(parts) = 3
                /\ convertType(parts[1]) # None
                /\ convertPriority(parts[3]) # None
        THEN TagInfo(parts[2], convertType(parts[1]), convertPriority(parts[3]))
        ELSE TagError(lower)

(***************************************************************************)
(* The view tree: Text, Element (plain, ContainerElement, AttributeElement)*)
(* and DocumentFragment nodes, every node a record of the same fields.     *)
(* A node is named by its path, the child indexes leading to it from the   *)
(* root; a Position is (parent, offset), parent being the path of a node.  *)
(***************************************************************************)
ViewText(chars) ==
    [type |-> "text", kind |-> "", name |-> << >>, priority |-> None,
     attrs |-> << >>, data |-> chars, children |-> << >>]
ViewDocumentFragment(children) ==
    [type |-> "fragment", kind |-> "", name |-> << >>, priority |-> None,
     attrs |-> << >>, data |-> << >>, children |-> children]
ViewElement(name, attrs, children) ==
    [type |-> "element", kind |-> "plain", name |-> name, priority |-> None,
     attrs |-> attrs, data |-> << >>, children |-> children]
ContainerElement(name, attrs, children) ==
    [ViewElement(name, attrs, children) EXCEPT !.kind = "container"]
DEFAULT_PRIORITY == 10
AttributeElement(name, attrs, children) ==
    [ViewElement(name, attrs, children) EXCEPT
        !.kind = "attribute", !.priority = Some(DEFAULT_PRIORITY)]

IsElement(node) == node.type = "element"
IsDocumentFragment(node) == node.type = "fragment"
IsText(node) == node.type = "text"

RECURSIVE NodeAt(_, _)
NodeAt(tree, path) ==
    IF path = << >> THEN tree ELSE NodeAt(tree.children[Head(path) + 1], Tail(path))

RECURSIVE HasNode(_, _)
HasNode(tree, path) ==
    \/ path = << >>
    \/ /\ Head(path) \in 0..(Len(tree.children) - 1)
       /\ HasNode(tree.children[Head(path) + 1], Tail(path))

RECURSIVE ConcatAll(_)
ConcatAll(seqs) == IF seqs = << >> THEN << >> ELSE Head(seqs) \o ConcatAll(Tail(seqs))

RECURSIVE PathsFrom(_, _)
\* The paths of the nodes of the tree, in document order (a node before its children).
PathsFrom(node, path) ==
    << path >> \o ConcatAll([i \in 1..Len(node.children) |->
                                PathsFrom(node.children[i], path \o << i - 1 >>)])
Paths(tree) == PathsFrom(tree, << >>)

Position(parent, offset) == [parent |-> parent, offset |-> offset]
Range(start, end) == [start |-> start, end |-> end]
\* Range.isCollapsed: start.isEqual( end ), the same parent and the same offset.
isCollapsed(r) == r.start.parent = r.end.parent /\ r.start.offset = r.end.offset

(***************************************************************************)
(* The markup, a sequence of tokens: a character, an opening tag with its  *)
(* name and attributes, a closing tag with its name.                       *)
(***************************************************************************)
CharToken(c) == [tok |-> "char", name |-> << >>, attrs |-> << >>, ch |-> c]
OpenTag(name, attrs) == [tok |-> "open", name |-> name, attrs |-> attrs, ch |-> ""]
CloseTag(name) == [tok |-> "close", name |-> name, attrs |-> << >>, ch |-> ""]
Chars(s) == [i \in 1..Len(s) |-> CharToken(s[i])]

(***************************************************************************)
(* ViewStringify                                                           *)
(***************************************************************************)
stringifyElementType(element, opts) ==
    IF opts.showType /\ element.kind = "attribute" THEN ATTRIBUTE
    ELSE IF opts.showType /\ element.kind = "container" THEN CONTAINER
    ELSE << >>

stringifyElementPriority(element, opts) ==
    IF opts.showPriority /\ element.kind = "attribute"
    THEN NumberToString(TheValue(element.priority))
    ELSE << >>

\* [ type, element.name, priority ].filter( i => i !== '' ).join( ':' )
stringifyElementName(element, opts) ==
    Join(SelectSeq(<< stringifyElementType(element, opts), element.name,
                      stringifyElementPriority(element, opts) >>,
                   LAMBDA part : part # << >>),
         << ":" >>)

stringifyElementAttributes(element) == element.attrs

stringifyElementOpen(element, opts) ==
    << OpenTag(stringifyElementName(element, opts), stringifyElementAttributes(element)) >>

stringifyElementClose(element, opts) ==
    << CloseTag(stringifyElementName(element, opts)) >>

RECURSIVE ElementRangeTokens(_, _, _, _)
\* The loop of _stringifyElementRanges over this.ranges: acc is [start, end, collapsed].
ElementRangeTokens(rs, element, offset, acc) ==
    IF rs = << >> THEN acc
    ELSE LET r == Head(rs)
             atStart == r.start.parent = element /\ r.start.offset = offset
             atEnd == r.end.parent = element /\ r.end.offset = offset /\ ~isCollapsed(r)
             a1 == IF atStart /\ isCollapsed(r)
                   THEN [acc EXCEPT !.collapsed = @ \o << ELEMENT_RANGE_START_TOKEN,
                                                          ELEMENT_RANGE_END_TOKEN >>]
                   ELSE IF atStart
                   THEN [acc EXCEPT !.start = @ \o << ELEMENT_RANGE_START_TOKEN >>]
                   ELSE acc
             a2 == IF atEnd THEN [a1 EXCEPT !.end = @ \o << ELEMENT_RANGE_END_TOKEN >>]
                   ELSE a1
         IN  ElementRangeTokens(Tail(rs), element, offset, a2)

NoTokens == [start |-> << >>, end |-> << >>, collapsed |-> << >>]

\* A different writing, for comparison: the opening tokens before the closing ones.
WrongOrderElementRanges(rs, element, offset) ==
    LET acc == ElementRangeTokens(rs, element, offset, NoTokens)
    IN  acc.start \o acc.collapsed \o acc.end

\* ViewStringify._stringifyElementRanges( element, offset ): end + collapsed + start.
stringifyElementRanges(rs, element, offset) ==
    LET acc == ElementRangeTokens(rs, element, offset, NoTokens)
    IN  acc.end \o acc.collapsed \o acc.start

RECURSIVE TextRangeTokens(_, _, _, _)
\* The loop of _stringifyTextRanges over this.ranges: letters[o + 1] is result[ o ].
TextRangeTokens(rs, node, length, letters) ==
    IF rs = << >> THEN letters
    ELSE LET r == Head(rs)
             startIn == r.start.parent = node /\ r.start.offset >= 0
                        /\ r.start.offset <= length
             endIn == r.end.parent = node /\ r.end.offset >= 0
                      /\ r.end.offset <= length /\ ~isCollapsed(r)
             l1 == IF startIn /\ isCollapsed(r)
                   THEN [letters EXCEPT ![r.end.offset + 1].collapsed =
                            @ \o << TEXT_RANGE_START_TOKEN, TEXT_RANGE_END_TOKEN >>]
                   ELSE IF startIn
                   THEN [letters EXCEPT ![r.start.offset + 1].start =
                            @ \o << TEXT_RANGE_START_TOKEN >>]
                   ELSE letters
             l2 == IF endIn
                   THEN [l1 EXCEPT ![r.end.offset + 1].end = @ \o << TEXT_RANGE_END_TOKEN >>]
                   ELSE l1
         IN  TextRangeTokens(Tail(rs), node, length, l2)

\* result after the first map: one entry per letter and one more, of an empty letter.
TextLetters(text) ==
    [i \in 1..(Len(text) + 1) |->
        [letter |-> IF i <= Len(text) THEN << text[i] >> ELSE << >>,
         start |-> << >>, end |-> << >>, collapsed |-> << >>]]

stringifyTextRanges(rs, text, node) ==
    LET marked == TextRangeTokens(rs, node, Len(text), TextLetters(text))
    IN  ConcatAll([i \in 1..Len(marked) |->
            marked[i].end \o marked[i].collapsed \o marked[i].start \o marked[i].letter])

RECURSIVE walkView(_, _, _, _)
walkView(node, path, rs, opts) ==
    IF IsElement(node) \/ IsDocumentFragment(node)
    THEN (IF IsElement(node) THEN stringifyElementOpen(node, opts) ELSE << >>)
         \o Chars(stringifyElementRanges(rs, path, 0))
         \o ConcatAll([i \in 1..Len(node.children) |->
                walkView(node.children[i], path \o << i - 1 >>, rs, opts)
                \o Chars(stringifyElementRanges(rs, path, i))])
         \o (IF IsElement(node) THEN stringifyElementClose(node, opts) ELSE << >>)
    ELSE Chars(stringifyTextRanges(rs, node.data, path))

stringify(node, sel, opts) == walkView(node, << >>, sel, opts)

(***************************************************************************)
(* HtmlDataProcessor.toDom: the DOM of the markup.  Characters that follow *)
(* one another make one DOM Text; a DOM element reports its tag name in    *)
(* upper case.  The DOM nodes are records of the fields of the view nodes. *)
(***************************************************************************)
ToUpperCaseChar(c) ==
    IF \E i \in 1..Len(LowerLetters) : LowerLetters[i] = c
    THEN UpperLetters[CHOOSE i \in 1..Len(LowerLetters) : LowerLetters[i] = c]
    ELSE c
ToUpperCase(s) == [i \in 1..Len(s) |-> ToUpperCaseChar(s[i])]

DomText(chars) == [ViewText(chars) EXCEPT !.type = "domText"]
DomElement(tag, attrs, children) ==
    [ViewElement(ToUpperCase(tag), attrs, children) EXCEPT !.type = "domElement", !.kind = ""]
DomDocumentFragment(children) ==
    [ViewDocumentFragment(children) EXCEPT !.type = "domFragment"]

AppendChar(children, c) ==
    IF children # << >> /\ Last(children).type = "domText"
    THEN [children EXCEPT ![Len(children)].data = @ \o << c >>]
    ELSE Append(children, DomText(<< c >>))

RECURSIVE CloseAll(_)
\* Closes the elements still open: stack[1] is the fragment, Last(stack) the innermost.
CloseAll(stack) ==
    IF Len(stack) = 1 THEN stack[1].children
    ELSE LET top == Last(stack)
             below == stack[Len(stack) - 1]
             made == DomElement(top.name, top.attrs, top.children)
         IN  CloseAll([Front(stack) EXCEPT ![Len(stack) - 1].children = Append(@, made)])

RECURSIVE DomOf(_, _)
DomOf(tokens, stack) ==
    IF tokens = << >> THEN DomDocumentFragment(CloseAll(stack))
    ELSE LET t == Head(tokens)
             n == Len(stack)
         IN  IF t.tok = "char"
             THEN DomOf(Tail(tokens), [stack EXCEPT ![n].children = AppendChar(@, t.ch)])
             ELSE IF t.tok = "open"
             THEN DomOf(Tail(tokens),
                        Append(stack, [name |-> t.name, attrs |-> t.attrs,
                                       children |-> << >>]))
             ELSE IF n = 1 THEN DomOf(Tail(tokens), stack)
             ELSE DomOf(Tail(tokens),
                        [Front(stack) EXCEPT ![n - 1].children =
                            Append(@, DomElement(stack[n].name, stack[n].attrs,
                                                 stack[n].children))])

toDom(markup) ==
    DomOf(markup, << [name |-> << >>, attrs |-> << >>, children |-> << >>] >>)

(***************************************************************************)
(* ViewParser: the view tree of the DOM                                    *)
(***************************************************************************)
convertElement(domElement, children) ==
    LET tag == convertElementName(domElement.name)
    IN  IF tag.type = Some(ATTRIBUTE)
        THEN [AttributeElement(tag.name, domElement.attrs, children) EXCEPT
                 !.priority = IF tag.priority # None THEN tag.priority ELSE @]
        ELSE IF tag.type = Some(CONTAINER)
        THEN ContainerElement(tag.name, domElement.attrs, children)
        ELSE ViewElement(tag.name, domElement.attrs, children)

RECURSIVE walkDom(_)
walkDom(domNode) ==
    IF domNode.type = "domElement" \/ domNode.type = "domFragment"
    THEN IF domNode.type = "domFragment" /\ Len(domNode.children) = 1
         THEN walkDom(domNode.children[1])
         ELSE LET children == [i \in 1..Len(domNode.children) |->
                                  walkDom(domNode.children[i])]
              IN  IF domNode.type = "domElement"
                  THEN convertElement(domNode, children)
                  ELSE ViewDocumentFragment(children)
    ELSE ViewText(domNode.data)

\* _convertElementName throws for some element that _walkDom converts.
RECURSIVE TagErrorIn(_)
TagErrorIn(domNode) ==
    \/ domNode.type = "domElement" /\ ~convertElementName(domNode.name).ok
    \/ \E i \in 1..Len(domNode.children) : TagErrorIn(domNode.children[i])

(***************************************************************************)
(* RangeParser._getPositions.  The walk visits the Text nodes in document  *)
(* order, each element iterating over a copy of its children; a Text left  *)
(* empty is removed from its parent, which moves its later siblings one    *)
(* index down.  GetPositionsOfText is the visit of one Text node.          *)
(***************************************************************************)
NoParent == << -1 >>     \* node.parent of the root: null
NullIndex == -1          \* node.getIndex() of the root: null

\* The class of the scan's regular expression: the four tokens and the space.
RegexpClass ==
    {" ", TEXT_RANGE_START_TOKEN, TEXT_RANGE_END_TOKEN,
     ELEMENT_RANGE_END_TOKEN, ELEMENT_RANGE_START_TOKEN}

IsStartToken(b) == b = ELEMENT_RANGE_START_TOKEN \/ b = TEXT_RANGE_START_TOKEN
IsEndToken(b) == b = ELEMENT_RANGE_END_TOKEN \/ b = TEXT_RANGE_END_TOKEN
IsTextToken(b) == b = TEXT_RANGE_START_TOKEN \/ b = TEXT_RANGE_END_TOKEN

RECURSIVE ReplaceAt(_, _, _)
ReplaceAt(tree, path, node) ==
    IF path = << >> THEN node
    ELSE [tree EXCEPT !.children[Head(path) + 1] = ReplaceAt(@, Tail(path), node)]

RemoveChild(children, index) ==
    SubSeq(children, 1, index) \o SubSeq(children, index + 2, Len(children))

RECURSIVE RemoveAt(_, _)
\* node.remove() of the node at path, which has a parent.
RemoveAt(tree, path) ==
    IF Len(path) = 1 THEN [tree EXCEPT !.children = RemoveChild(@, path[1])]
    ELSE [tree EXCEPT !.children[Head(path) + 1] = RemoveAt(@, Tail(path))]

TextPaths(tree) == SelectSeq(Paths(tree), LAMBDA p : IsText(NodeAt(tree, p)))

\* The places (1-based) of the matches of the regular expression in text.
RECURSIVE MatchPlaces(_, _)
MatchPlaces(text, from) ==
    IF from > Len(text) THEN << >>
    ELSE IF text[from] \in RegexpClass THEN << from >> \o MatchPlaces(text, from + 1)
    ELSE MatchPlaces(text, from + 1)

\* The brackets array: the k-th match at place m has index m - 1, and k - 1
\* matches were counted in offset before it.
Brackets(text) ==
    LET places == MatchPlaces(text, 1)
    IN  [k \in 1..Len(places) |->
            [bracket |-> text[places[k]], textOffset |-> (places[k] - 1) - (k - 1)]]

\* text.replace( regexp, '' )
StripMatches(text) == SelectSeq(text, LAMBDA c : c \notin RegexpClass)

IndexPlusOne(index) == IF index = NullIndex THEN 1 ELSE index + 1

RECURSIVE PositionsOfBrackets(_, _, _, _, _, _)
\* The loop over brackets: the positions pushed, and the error that ended it.
PositionsOfBrackets(items, text, node, parent, index, acc) ==
    IF items = << >> THEN [positions |-> acc, err |-> ""]
    ELSE LET item == Head(items)
             push(position) ==
                 PositionsOfBrackets(Tail(items), text, node, parent, index,
                     Append(acc, [bracket |-> item.bracket, position |-> position]))
         IN  IF text # << >>
             THEN IF IsTextToken(item.bracket)
                  THEN push(Position(node, item.textOffset))
                  ELSE IF item.textOffset # 0 /\ item.textOffset # Len(text)
                  THEN [positions |-> acc, err |-> "delimiter inside text node"]
                  ELSE push(Position(parent, IF item.textOffset = 0 THEN index
                                             ELSE IndexPlusOne(index)))
             ELSE IF IsTextToken(item.bracket)
                  THEN [positions |-> acc, err |-> "text delimiter inside empty text node"]
                  ELSE push(Position(parent, index))

GetPositionsOfText(tree, path) ==
    LET node == NodeAt(tree, path)
        brackets == Brackets(node.data)
        text == StripMatches(node.data)
        index == IF path = << >> THEN NullIndex ELSE Last(path)
        parent == IF path = << >> THEN NoParent ELSE Front(path)
        pushed == PositionsOfBrackets(brackets, text, path, parent, index, << >>)
    IN  IF text = << >> /\ path = << >>
        THEN [view |-> ReplaceAt(tree, path, [node EXCEPT !.data = text]),
              removed |-> FALSE, positions |-> << >>, err |-> "TypeError"]
        ELSE [view |-> IF text = << >> THEN RemoveAt(tree, path)
                       ELSE ReplaceAt(tree, path, [node EXCEPT !.data = text]),
              removed |-> text = << >>,
              positions |-> pushed.positions,
              err |-> pushed.err]

RECURSIVE GetPositionsFrom(_, _, _)
\* The rest of the walk: done Text nodes were visited and are still in the tree.
GetPositionsFrom(tree, done, acc) ==
    IF done >= Len(TextPaths(tree)) THEN [view |-> tree, positions |-> acc, err |-> ""]
    ELSE LET visit == GetPositionsOfText(tree, TextPaths(tree)[done + 1])
         IN  IF visit.err # ""
             THEN [view |-> visit.view, positions |-> acc \o visit.positions,
                   err |-> visit.err]
             ELSE GetPositionsFrom(visit.view, IF visit.removed THEN done ELSE done + 1,
                                   acc \o visit.positions)

getPositions(tree) == GetPositionsFrom(tree, 0, << >>)

(***************************************************************************)
(* RangeParser._createRanges: one slot, the range that is open.            *)
(***************************************************************************)
\* One turn of the loop: item is consumed with open the slot and closed the ranges.
createRangesStep(open, closed, item) ==
    IF open = None /\ IsEndToken(item.bracket)
    THEN [range |-> open, ranges |-> closed, err |-> "end without start"]
    ELSE IF open # None /\ IsStartToken(item.bracket)
    THEN [range |-> open, ranges |-> closed, err |-> "start while started"]
    ELSE IF IsStartToken(item.bracket)
    THEN [range |-> Some(Range(item.position, item.position)), ranges |-> closed,
          err |-> ""]
    \* range.end = item.position, with range null
    ELSE IF open = None
    THEN [range |-> open, ranges |-> closed, err |-> "TypeError"]
    ELSE [range |-> None,
          ranges |-> Append(closed, [TheValue(open) EXCEPT !.end = item.position]),
          err |-> ""]

\* A different ending, for comparison: a range left open is accepted.
NoLastCheckCreateRangesEnd(open) == ""

\* The check after the loop.
createRangesEnd(open) == IF open # None THEN "no end delimiter" ELSE ""

RECURSIVE CreateRangesFrom(_, _, _)
CreateRangesFrom(items, open, closed) ==
    IF items = << >> THEN [ranges |-> closed, err |-> createRangesEnd(open)]
    ELSE LET step == createRangesStep(open, closed, Head(items))
         IN  IF step.err # "" THEN [ranges |-> closed, err |-> step.err]
             ELSE CreateRangesFrom(Tail(items), step.range, step.ranges)

createRanges(items) == CreateRangesFrom(items, None, << >>)

(***************************************************************************)
(* RangeParser._sortRanges.  sortedRanges is a sparse array: an index that *)
(* was never assigned below its length is a hole (None), read as undefined.*)
(***************************************************************************)
SetIndex(array, index, value) ==
    IF index < Len(array) THEN [array EXCEPT ![index + 1] = Some(value)]
    ELSE array \o [i \in 1..(index - Len(array)) |-> None] \o << Some(value) >>

RECURSIVE SortRangesFrom(_, _, _, _)
SortRangesFrom(found, rangesOrder, index, sortedRanges) ==
    IF rangesOrder = << >> THEN [sorted |-> sortedRanges, err |-> ""]
    ELSE LET newPosition == Head(rangesOrder)
         IN  IF newPosition - 1 \notin 0..(Len(found) - 1)
             THEN [sorted |-> sortedRanges, err |-> "invalid ranges order"]
             ELSE SortRangesFrom(found, Tail(rangesOrder), index + 1,
                     SetIndex(sortedRanges, newPosition - 1, found[index + 1]))

\* A different sorting, for comparison: the range at index i of the result is the
\* one found at position rangesOrder[i].
InverseSortRanges(found, rangesOrder) ==
    IF \E i \in 1..Len(rangesOrder) : rangesOrder[i] - 1 \notin 0..(Len(found) - 1)
    THEN [sorted |-> << >>, err |-> "invalid ranges order"]
    ELSE [sorted |-> [i \in 1..Len(rangesOrder) |-> Some(found[rangesOrder[i]])],
          err |-> ""]

sortRanges(found, rangesOrder) == SortRangesFrom(found, rangesOrder, 0, << >>)

\* RangeParser.parse after _createRanges returned found.
orderRanges(found, rangesOrder) ==
    IF Len(rangesOrder) # 0
    THEN IF Len(rangesOrder) # Len(found)
         THEN [sorted |-> << >>, err |-> "ranges count mismatch"]
         ELSE sortRanges(found, rangesOrder)
    ELSE [sorted |-> [i \in 1..Len(found) |-> Some(found[i])], err |-> ""]

(***************************************************************************)
(* parse                                                                   *)
(***************************************************************************)
NoView == ViewDocumentFragment(<< >>)
NoResult == [returned |-> FALSE, view |-> NoView, hasSelection |-> FALSE, ranges |-> << >>]

\* The end of parse: Selection.setRanges copies each range, and throws on a hole.
parseReturn(tree, sorted) ==
    IF Len(sorted) # 0
    THEN IF \E i \in 1..Len(sorted) : sorted[i] = None
         THEN [result |-> NoResult, err |-> "TypeError"]
         ELSE [result |-> [returned |-> TRUE, view |-> tree, hasSelection |-> TRUE,
                           ranges |-> [i \in 1..Len(sorted) |-> TheValue(sorted[i])]],
               err |-> ""]
    ELSE [result |-> [returned |-> TRUE, view |-> tree, hasSelection |-> FALSE,
                      ranges |-> << >>],
          err |-> ""]

Failed(error) == [result |-> NoResult, err |-> error, found |-> << >>]

\* parse( data, { order } ) as one function: what it returns or throws, and the
\* ranges _createRanges found.
parse(markup, rangesOrder) ==
    LET dom == toDom(markup)
    IN  IF TagErrorIn(dom) THEN Failed("cannot parse tag name")
        ELSE LET scan == getPositions(walkDom(dom))
             IN  IF scan.err # "" THEN Failed(scan.err)
                 ELSE LET made == createRanges(scan.positions)
                      IN  IF made.err # "" THEN Failed(made.err)
                          ELSE LET sorted == orderRanges(made.ranges, rangesOrder)
                               IN  IF sorted.err # "" THEN Failed(sorted.err)
                                   ELSE LET ret == parseReturn(scan.view, sorted.sorted)
                                        IN  [result |-> ret.result, err |-> ret.err,
                                             found |-> made.ranges]

(***************************************************************************)
(* Inputs                                                                  *)
(***************************************************************************)
MaxTextLen == 2
MaxChildren == 2
MaxRanges == 2
MaxSize == 5

SeqsUpTo(S, n) == UNION {[1..k -> S] : k \in 0..n}

TextAlphabet == {"a", " "}
Texts == {ViewText(t) : t \in SeqsUpTo(TextAlphabet, MaxTextLen)}

P == << "p" >>
B == << "b" >>
NoAttributes == << >>
SomeAttributes == << [key |-> << "i", "d" >>, value |-> << "a" >>] >>

\* The elements built by the three constructors, given their children.
Elements(children) ==
    {ViewElement(P, SomeAttributes, children),
     ContainerElement(P, NoAttributes, children),
     AttributeElement(B, NoAttributes, children),
     [AttributeElement(B, NoAttributes, children) EXCEPT !.priority = Some(2)]}

Leaves == Texts \cup {ContainerElement(P, NoAttributes, << >>)}

\* The children given to a constructor: leaves of at most MaxSize nodes and
\* characters together.
LeafSize(cs) ==
    LET sum[i \in 0..Len(cs)] == IF i = 0 THEN 0 ELSE sum[i - 1] + 1 + Len(cs[i].data)
    IN  sum[Len(cs)]
LeafSeqs == {cs \in SeqsUpTo(Leaves, MaxChildren) : LeafSize(cs) <= MaxSize}
Inner == UNION {Elements(cs) : cs \in LeafSeqs}

\* The number of nodes and characters of a tree.
RECURSIVE Size(_)
Size(node) ==
    1 + Len(node.data)
      + (IF node.children = << >> THEN 0
         ELSE LET sizes == [i \in 1..Len(node.children) |-> Size(node.children[i])]
                  sum[i \in 0..Len(sizes)] == IF i = 0 THEN 0 ELSE sum[i - 1] + sizes[i]
              IN  sum[Len(sizes)])

\* The trees stringified: a Text, an element or a fragment of leaves, or a
\* fragment of one element.
Trees ==
    Texts \cup Inner \cup {ViewDocumentFragment(cs) : cs \in LeafSeqs}
          \cup {ViewDocumentFragment(<< e >>) : e \in Inner}

\* The positions inside a tree: every offset of every node of it.
PositionsIn(tree) ==
    UNION {{Position(path, o) :
               o \in 0..(IF IsText(NodeAt(tree, path)) THEN Len(NodeAt(tree, path).data)
                         ELSE Len(NodeAt(tree, path).children))} :
           path \in {Paths(tree)[i] : i \in 1..Len(Paths(tree))}}

RECURSIVE PathBefore(_, _)
\* Document order of two places, each the path of a parent followed by an offset:
\* the place before a child comes before the places inside the child.
PathBefore(a, b) ==
    IF a = << >> THEN b # << >>
    ELSE IF b = << >> THEN FALSE
    ELSE IF Head(a) # Head(b) THEN Head(a) < Head(b)
    ELSE PathBefore(Tail(a), Tail(b))

Place(position) == Append(position.parent, position.offset)
isBefore(p, q) == PathBefore(Place(p), Place(q))

RangesIn(tree) ==
    {r \in {Range(s, e) : s \in PositionsIn(tree), e \in PositionsIn(tree)} :
        r.start = r.end \/ isBefore(r.start, r.end)}

BothOptions == [showType |-> TRUE, showPriority |-> TRUE]

\* The trees stringified with a selection of n ranges: the smaller the more ranges,
\* and of plain elements.
RECURSIVE IsPlain(_)
IsPlain(node) ==
    /\ IsElement(node) => node = ViewElement(P, SomeAttributes, node.children)
    /\ \A i \in 1..Len(node.children) : IsPlain(node.children[i])
SelectionTrees(n) == {t \in Trees : Size(t) + n <= MaxSize /\ IsPlain(t)}

\* The positions a selection must not hold: of a node that is in no tree, and
\* one past the last offset of a node of the tree.
Detached == << -2 >>
PositionsOutside(tree) ==
    {Position(Detached, 0)}
    \cup {Position(path, 1 + (IF IsText(NodeAt(tree, path)) THEN Len(NodeAt(tree, path).data)
                              ELSE Len(NodeAt(tree, path).children))) :
          path \in {Paths(tree)[i] : i \in 1..Len(Paths(tree))}}
RangesOutside(tree) ==
    LET all == PositionsIn(tree) \cup PositionsOutside(tree)
    IN  {r \in {Range(s, e) : s \in all, e \in all} :
            r.start \in PositionsOutside(tree) \/ r.end \in PositionsOutside(tree)}

InsideRoot(sel, tree) ==
    \A i \in 1..Len(sel) : sel[i].start \in PositionsIn(tree) /\ sel[i].end \in PositionsIn(tree)

\* The markup given to parse: one element around any short text of letters, spaces
\* and tokens, and the sequences of elements that hold one range each.
MaxInputLen == 3
MaxOrderLen == 3
ParseAlphabet == RegexpClass \cup {"a"}
InElement(tokens) == << OpenTag(P, NoAttributes) >> \o tokens \o << CloseTag(P) >>
TextInputs == {InElement(Chars(t)) : t \in SeqsUpTo(ParseAlphabet, MaxInputLen)}
RangeSnippet(i) ==
    IF i % 2 = 1 THEN InElement(Chars(<< "[", "a", "]" >>))
    ELSE InElement(Chars(<< "a", "{", "}", "a" >>))
RangeInputs == {ConcatAll([i \in 1..n |-> RangeSnippet(i)]) : n \in 0..MaxOrderLen}
Orders(n) == SeqsUpTo(0..(MaxOrderLen + 1), n)

\* The markup given to parse for the scan: two short texts of letters and tokens
\* around an empty element, inside an element or at the top, and one short text
\* alone at the top.
MaxSiblingLen == 2
ScanAlphabet ==
    {"a", ELEMENT_RANGE_START_TOKEN, ELEMENT_RANGE_END_TOKEN, TEXT_RANGE_START_TOKEN}
ScanTexts == SeqsUpTo(ScanAlphabet, MaxSiblingLen)
AroundElement(x, y) == Chars(x) \o << OpenTag(B, NoAttributes), CloseTag(B) >> \o Chars(y)
ScanInputs ==
    {AroundElement(x, y) : x \in ScanTexts, y \in ScanTexts}
    \cup {InElement(AroundElement(x, y)) : x \in ScanTexts, y \in ScanTexts}
    \cup {Chars(x) : x \in ScanTexts}

\* The tag names the DOM reports: segments joined by colons, in upper case, the
\* first character a letter.
MaxSegments == 4
Segments ==
    {CONTAINER, ATTRIBUTE, B, << "1", "0" >>, << "1", "a" >>, << "-", "5" >>, << >>}
SegmentSeqs ==
    {segs \in SeqsUpTo(Segments, MaxSegments) :
        segs # << >> /\ segs[1] # << >> /\ ~IsDigit(segs[1][1]) /\ segs[1][1] # "-"}
TagText(segs) == Join(segs, << ":" >>)

(***************************************************************************)
(* The calls                                                               *)
(***************************************************************************)
Idle ==
    /\ view = NoView /\ kept = 0 /\ positions = << >> /\ posIdx = 0
    /\ range = None /\ ranges = << >> /\ result = NoResult /\ err = ""
    /\ tagName = << >> /\ info = TagError(<< >>)

\* parse( stringify( root, selection, options ) ): any root without a selection, a
\* small root with a selection of ranges inside it, a small root with a range that
\* is not inside it.
Init ==
    /\ pc = "stringify"
    /\ \/ root \in Trees /\ selection = << >>
       \/ \E n \in 1..MaxRanges :
              /\ root \in SelectionTrees(n)
              /\ selection \in [1..n -> RangesIn(root)]
       \/ /\ root \in SelectionTrees(1)
          /\ selection \in {<< r >> : r \in RangesOutside(root)}
    /\ options = BothOptions
    /\ data = << >>
    /\ order = << >>
    /\ Idle

Stringify ==
    /\ pc = "stringify"
    /\ data' = stringify(root, selection, options)
    /\ pc' = "parseView"
    /\ UNCHANGED << root, selection, options, order, view, kept, positions, posIdx,
                    range, ranges, result, err, tagName, info >>

AfterScan(tree, done) ==
    IF done < Len(TextPaths(tree)) THEN "getPositions" ELSE "createRanges"

\* ViewParser.parse
ParseView ==
    /\ pc = "parseView"
    /\ LET dom == toDom(data)
       IN  IF TagErrorIn(dom)
           THEN /\ err' = "cannot parse tag name"
                /\ pc' = "done"
                /\ UNCHANGED view
           ELSE /\ view' = walkDom(dom)
                /\ pc' = AfterScan(walkDom(dom), 0)
                /\ UNCHANGED err
    /\ UNCHANGED << root, selection, options, data, order, kept, positions, posIdx,
                    range, ranges, result, tagName, info >>

\* RangeParser._getPositions at the next Text node of the walk.
GetPositions ==
    /\ pc = "getPositions"
    /\ LET visit == GetPositionsOfText(view, TextPaths(view)[kept + 1])
           done == IF visit.removed THEN kept ELSE kept + 1
       IN  /\ view' = visit.view
           /\ positions' = positions \o visit.positions
           /\ err' = visit.err
           /\ kept' = done
           /\ pc' = IF visit.err # "" THEN "done" ELSE AfterScan(visit.view, done)
    /\ UNCHANGED << root, selection, options, data, order, posIdx, range, ranges,
                    result, tagName, info >>

\* RangeParser._createRanges at the next item of _positions.
CreateRanges ==
    /\ pc = "createRanges"
    /\ posIdx < Len(positions)
    /\ LET step == createRangesStep(range, ranges, positions[posIdx + 1])
       IN  /\ range' = step.range
           /\ ranges' = step.ranges
           /\ err' = step.err
           /\ pc' = IF step.err # "" THEN "done" ELSE "createRanges"
    /\ posIdx' = posIdx + 1
    /\ UNCHANGED << root, selection, options, data, order, view, kept, positions,
                    result, tagName, info >>

\* The end of _createRanges, the rest of RangeParser.parse and of parse.
ParseEnd ==
    /\ pc = "createRanges"
    /\ posIdx = Len(positions)
    /\ LET unended == createRangesEnd(range)
           sorted == orderRanges(ranges, order)
           ret == parseReturn(view, sorted.sorted)
       IN  IF unended # "" THEN err' = unended /\ UNCHANGED result
           ELSE IF sorted.err # "" THEN err' = sorted.err /\ UNCHANGED result
           ELSE err' = ret.err /\ result' = ret.result
    /\ pc' = "done"
    /\ UNCHANGED << root, selection, options, data, order, view, kept, positions,
                    posIdx, range, ranges, tagName, info >>

Next == Stringify \/ ParseView \/ GetPositions \/ CreateRanges \/ ParseEnd

Spec == Init /\ [][Next]_vars

\* parse( data, { order } )
InitParse ==
    /\ pc = "parseView"
    /\ \/ data \in TextInputs /\ order \in Orders(1)
       \/ data \in RangeInputs /\ order \in Orders(MaxOrderLen)
    /\ root = NoView
    /\ selection = << >>
    /\ options = BothOptions
    /\ Idle

NextParse == ParseView \/ GetPositions \/ CreateRanges \/ ParseEnd

SpecParse == InitParse /\ [][NextParse]_vars

\* parse( data ) of markup with sibling texts
InitScan ==
    /\ pc = "parseView"
    /\ data \in ScanInputs
    /\ order = << >>
    /\ root = NoView
    /\ selection = << >>
    /\ options = BothOptions
    /\ Idle

SpecScan == InitScan /\ [][NextParse]_vars

\* ViewParser._convertElementName( element )
InitTag ==
    /\ pc = "convertElementName"
    /\ tagName \in {ToUpperCase(TagText(segs)) : segs \in SegmentSeqs}
    /\ info = TagError(<< >>)
    /\ root = NoView /\ selection = << >> /\ options = BothOptions
    /\ data = << >> /\ order = << >>
    /\ view = NoView /\ kept = 0 /\ positions = << >> /\ posIdx = 0
    /\ range = None /\ ranges = << >> /\ result = NoResult /\ err = ""

ConvertElementName ==
    /\ pc = "convertElementName"
    /\ info' = convertElementName(tagName)
    /\ pc' = "done"
    /\ UNCHANGED << root, selection, options, data, order, view, kept, positions,
                    posIdx, range, ranges, result, err, tagName >>

NextTag == ConvertElementName

SpecTag == InitTag /\ [][NextTag]_vars

(***************************************************************************)
(* Properties of parse( stringify( root, selection ) ), under Spec         *)
(***************************************************************************)
Returned == pc = "done" /\ err = "" /\ result.returned

\* C1: for every tree T built by the constructors, parse( stringify( T ) ) with no
\* selection returns a tree equal to T: the same kinds, names, priorities,
\* attributes, child order and text, also for text with spaces, for empty Text
\* nodes and for a DocumentFragment root with a single child.
C1_RoundTripWithoutRanges ==
    (pc = "done" /\ selection = << >>)
        => (Returned /\ ~result.hasSelection /\ result.view = root)

\* C2: for every tree T and every selection S of ranges inside T, in any order and
\* overlapping or not, parse( stringify( T, S ) ) returns a tree equal to T and a
\* selection whose ranges equal those of S, index by index.
C2_RoundTripWithRanges ==
    (pc = "done" /\ selection # << >> /\ InsideRoot(selection, root))
        => (Returned /\ result.hasSelection /\ result.view = root
            /\ result.ranges = selection)

\* The range tokens of the markup, in the order they were written.
IsRangeToken(t) == t.tok = "char" /\ t.ch \in RegexpClass \ {" "}
Markers(markup) ==
    LET tokens == SelectSeq(markup, IsRangeToken)
    IN  [i \in 1..Len(tokens) |-> tokens[i].ch]

\* C3: a range collapsed at an element offset or at a character offset of a
\* non-empty Text is stringified as one adjacent pair of an opening and a closing
\* token, and parsing the markup gives back exactly that one collapsed range.
C3_CollapsedRangeSymmetry ==
    (/\ pc = "done" /\ Len(selection) = 1 /\ InsideRoot(selection, root)
     /\ isCollapsed(selection[1])
     /\ NodeAt(root, selection[1].start.parent) # ViewText(<< >>))
        => /\ Markers(data) =
                  IF IsText(NodeAt(root, selection[1].start.parent))
                  THEN << TEXT_RANGE_START_TOKEN, TEXT_RANGE_END_TOKEN >>
                  ELSE << ELEMENT_RANGE_START_TOKEN, ELEMENT_RANGE_END_TOKEN >>
           /\ \E i \in 1..(Len(data) - 1) : IsRangeToken(data[i]) /\ IsRangeToken(data[i + 1])
           /\ Returned /\ result.hasSelection /\ result.ranges = selection

\* C8: given a selection with a position that is not inside the root (a node that
\* is not in the tree, an offset past the end of its node), stringify fails and
\* returns no markup.
C8_StringifyFailsFast ==
    (pc # "stringify" /\ ~InsideRoot(selection, root)) => (err # "" /\ data = << >>)

RECURSIVE Rep(_, _)
Rep(tokens, n) == IF n = 0 THEN << >> ELSE tokens \o Rep(tokens, n - 1)

HowMany(sel, Test(_)) == Cardinality({i \in 1..Len(sel) : Test(sel[i])})

\* What is due at one offset of one node: a closing token for each range that ends
\* there and is not collapsed, then a pair for each range collapsed there, then an
\* opening token for each range that starts there and is not collapsed.
TokensDue(sel, node, offset, open, close) ==
    LET here == Position(node, offset)
    IN  Rep(<< close >>, HowMany(sel, LAMBDA r : r.end = here /\ r.start # here))
        \o Rep(<< open, close >>, HowMany(sel, LAMBDA r : r.start = here /\ r.end = here))
        \o Rep(<< open >>, HowMany(sel, LAMBDA r : r.start = here /\ r.end # here))

RECURSIVE MarkupDue(_, _, _, _)
\* The markup with the tokens due at every offset, in a Text before the character
\* at the offset.
MarkupDue(node, path, sel, opts) ==
    IF IsText(node)
    THEN Chars(ConcatAll([i \in 1..(Len(node.data) + 1) |->
             TokensDue(sel, path, i - 1, TEXT_RANGE_START_TOKEN, TEXT_RANGE_END_TOKEN)
             \o (IF i <= Len(node.data) THEN << node.data[i] >> ELSE << >>)]))
    ELSE (IF IsElement(node) THEN stringifyElementOpen(node, opts) ELSE << >>)
         \o ConcatAll([i \in 1..(Len(node.children) + 1) |->
                (IF i = 1 THEN << >>
                 ELSE MarkupDue(node.children[i - 1], path \o << i - 2 >>, sel, opts))
                \o Chars(TokensDue(sel, path, i - 1, ELEMENT_RANGE_START_TOKEN,
                                   ELEMENT_RANGE_END_TOKEN))])
         \o (IF IsElement(node) THEN stringifyElementClose(node, opts) ELSE << >>)

\* No range starts before an earlier range of the selection has ended.
InDocumentOrder(sel) ==
    \A i \in 1..Len(sel) : \A j \in (i + 1)..Len(sel) :
        sel[i].end = sel[j].start \/ isBefore(sel[i].end, sel[j].start)

\* _createRanges consumes the tokens without an error and closes n ranges.
Accepted(tokens, n) ==
    LET made == createRanges([i \in 1..Len(tokens) |->
                    [bracket |-> tokens[i], position |-> Position(<< >>, 0)]])
    IN  made.err = "" /\ Len(made.ranges) = n

\* C10: at every offset of an element or fragment and at every character offset of
\* a Text, stringify writes the closing tokens of the ranges ending there, then the
\* pairs of the ranges collapsed there, then the opening tokens of the ranges
\* starting there, in a Text before the character at the offset; the tokens
\* written for ranges that do not overlap, given in document order, are consumed
\* by _createRanges without an error.
C10_TokenOrderAtOffset ==
    pc # "stringify"
        => /\ data = MarkupDue(root, << >>, selection, options)
           /\ (InsideRoot(selection, root) /\ InDocumentOrder(selection))
                  => Accepted(Markers(data), Len(selection))

\* Two ranges were written, the first ending at the offset where the second starts.
C10_Witness ==
    /\ pc = "parseView"
    /\ Len(selection) = 2
    /\ InsideRoot(selection, root) /\ InDocumentOrder(selection)
    /\ ~isCollapsed(selection[1]) /\ ~isCollapsed(selection[2])
    /\ selection[1].end = selection[2].start
    /\ Len(Markers(data)) = 4

\* The view a DOM fragment is converted to when only a single element child is
\* taken as the root: the converted child, else a DocumentFragment of the converted
\* children in their order.
OnlyElementAsRoot(dom) ==
    IF Len(dom.children) = 1 /\ dom.children[1].type = "domElement"
    THEN walkDom(dom.children[1])
    ELSE ViewDocumentFragment([i \in 1..Len(dom.children) |-> walkDom(dom.children[i])])

\* C11: parsing replaces the DOM fragment by its child as the root only when the
\* fragment has exactly one child and the child is an element; a fragment with no
\* child, with a single Text child or with two or more children becomes a
\* DocumentFragment holding the converted children in order.
C11_FragmentOfOneElision ==
    [][(pc = "parseView" /\ ~TagErrorIn(toDom(data)))
          => view' = OnlyElementAsRoot(toDom(data))]_vars

(***************************************************************************)
(* Properties of parse( data, { order } ), under SpecParse                 *)
(***************************************************************************)
Unbalanced == {"start while started", "end without start", "no end delimiter"}

\* _createRanges is about to consume the next item of _positions.
AtItem == pc = "createRanges" /\ posIdx < Len(positions)
NextItem == positions[posIdx + 1]
\* _createRanges has consumed every item of _positions.
AtEnd == pc = "createRanges" /\ posIdx = Len(positions)

\* parse throws an error of an unbalanced range and returns nothing.
ThrowsUnbalanced == pc' = "done" /\ err' \in Unbalanced /\ result' = NoResult

\* C4: consuming the recorded tokens in document order with one slot for the open
\* range, parse throws an unbalanced-range error when a start token comes while a
\* range is open, when an end token comes while none is open, and when a range is
\* still open after the last token; it returns neither a tree nor a selection.
C4_UnbalancedRejected ==
    [][/\ (AtItem /\ range # None /\ IsStartToken(NextItem.bracket)) => ThrowsUnbalanced
       /\ (AtItem /\ range = None /\ IsEndToken(NextItem.bracket)) => ThrowsUnbalanced
       /\ (AtEnd /\ range # None) => ThrowsUnbalanced]_vars

\* An end token came first and parse threw.
C4_Witness ==
    /\ pc = "done" /\ err = "end without start" /\ posIdx = 1 /\ Len(positions) = 1
    /\ result = NoResult

IsPermutation(rangesOrder, n) ==
    Len(rangesOrder) = n /\ {rangesOrder[i] : i \in 1..n} = 1..n

\* _createRanges has returned its ranges: every item consumed, no range open.
Found == AtEnd /\ range = None

\* C5: when parse finds n ranges and order is a permutation of 1..n, the selection
\* returned holds n ranges, and the i-th range found in document order is at index
\* order[i] - 1 of it (at order[i], counting from 1).
C5_Ordering ==
    [][(Found /\ Len(ranges) >= 1 /\ IsPermutation(order, Len(ranges)))
          => /\ pc' = "done" /\ err' = ""
             /\ result'.returned /\ result'.hasSelection
             /\ Len(result'.ranges) = Len(ranges)
             /\ \A i \in 1..Len(ranges) : result'.ranges[order[i]] = ranges[i]]_vars

\* Three different ranges were found and returned in the order [2, 3, 1].
C5_Witness ==
    /\ Returned /\ order = << 2, 3, 1 >> /\ Len(ranges) = 3
    /\ Cardinality({ranges[i] : i \in 1..3}) = 3
    /\ result.ranges = << ranges[3], ranges[1], ranges[2] >>

\* C6: with a non-empty order parse succeeds only for a permutation of 1..n, n the
\* number of ranges found: an order of another length throws the error of the range
\* count, an order of length n that repeats an index or holds one outside 1..n
\* throws the error of the invalid order, and the selection returned never holds
\* fewer than n ranges.
C6_OrderValidated ==
    [][(Found /\ order # << >>)
          => /\ Len(order) # Len(ranges)
                  => (err' = "ranges count mismatch" /\ result' = NoResult)
             /\ (Len(order) = Len(ranges) /\ ~IsPermutation(order, Len(ranges)))
                  => (err' = "invalid ranges order" /\ result' = NoResult)
             /\ result'.returned => Len(result'.ranges) = Len(ranges)]_vars

WithoutSpaces(markup) == SelectSeq(markup, LAMBDA t : ~(t.tok = "char" /\ t.ch = " "))

\* C9: a space in a Text is stripped and has no other effect: parse of a markup
\* ends as parse of the same markup without its spaces, with the same error or
\* with the same tree and the same ranges.
C9_SpacesOnlySwallowed ==
    pc = "done"
        => /\ err = parse(WithoutSpaces(data), order).err
           /\ result = parse(WithoutSpaces(data), order).result

(***************************************************************************)
(* Properties of the scan of parse( data ), under SpecScan                 *)
(***************************************************************************)
\* The position has an owner in the tree and an offset the owner has: 0 to the
\* number of children of an element or fragment, 0 to the length of a Text.
InBounds(tree, position) ==
    /\ HasNode(tree, position.parent)
    /\ LET owner == NodeAt(tree, position.parent)
       IN  position.offset \in 0..(IF IsText(owner) THEN Len(owner.data)
                                   ELSE Len(owner.children))

\* The number of children of the owner of a position, none for no owner.
ChildCount(tree, position) ==
    IF HasNode(tree, position.parent) THEN Len(NodeAt(tree, position.parent).children)
    ELSE 0 - 1

\* C12: every Position the scan records is within the bounds of its owner when it
\* is constructed, no owner of a Position already recorded gains or loses a child
\* later in the scan, and every position of a range parse returns is within the
\* bounds of its owner in the tree returned.
C12_PositionsValid ==
    [][/\ pc = "getPositions"
          => /\ \A i \in (Len(positions) + 1)..Len(positions') :
                    InBounds(view', positions'[i].position)
             /\ \A i \in 1..Len(positions) :
                    ChildCount(view', positions[i].position)
                        = ChildCount(view, positions[i].position)
       /\ (pc' = "done" /\ result'.returned)
          => \A i \in 1..Len(result'.ranges) :
                 /\ InBounds(result'.view, result'.ranges[i].start)
                 /\ InBounds(result'.view, result'.ranges[i].end)]_vars

(***************************************************************************)
(* Properties of ViewParser._convertElementName, under SpecTag             *)
(***************************************************************************)
\* The integer a segment parses as, for the segments of the model: parseInt reads
\* the digits a segment starts with, after a sign, and ignores what follows them.
IntegerOf(segment) ==
    IF segment = << "1", "0" >> THEN Some(10)
    ELSE IF segment = << "1", "a" >> THEN Some(1)
    ELSE IF segment = << "-", "5" >> THEN Some(0 - 5)
    ELSE None

IsType(segment) == segment = CONTAINER \/ segment = ATTRIBUTE

\* The decoding of a tag name, by the number of its segments.
Decoded(segs) ==
    IF Len(segs) = 1 THEN TagInfo(segs[1], None, None)
    ELSE IF Len(segs) = 2 /\ IsType(segs[1]) THEN TagInfo(segs[2], Some(segs[1]), None)
    ELSE IF Len(segs) = 2 /\ IntegerOf(segs[2]) # None
    THEN TagInfo(segs[1], Some(ATTRIBUTE), IntegerOf(segs[2]))
    ELSE IF Len(segs) = 3 /\ IsType(segs[1]) /\ IntegerOf(segs[3]) # None
    THEN TagInfo(segs[2], Some(segs[1]), IntegerOf(segs[3]))
    ELSE TagError(TagText(segs))

TagTable == {[tag |-> ToUpperCase(TagText(segs)), segs |-> segs] : segs \in SegmentSeqs}

\* C7: a tag name of one segment X decodes to a plain element X; A:B to kind A, name
\* B when A is container or attribute, also when B is an integer, else to an
\* attribute element A of priority B when B parses as an integer; A:B:C to kind A,
\* name B, priority C when A is container or attribute and C parses as an integer;
\* every other tag name throws an error that carries the tag name.
C7_TypeTagDecoding ==
    pc = "done" => \E row \in TagTable : row.tag = tagName /\ info = Decoded(row.segs)

\* attribute:10 was decoded to an attribute element named 10 with no priority.
C7_Witness ==
    /\ pc = "done"
    /\ tagName = ToUpperCase(ATTRIBUTE \o << ":", "1", "0" >>)
    /\ info = TagInfo(<< "1", "0" >>, Some(ATTRIBUTE), None)
====
